---- MODULE Spec2Model ----
(***************************************************************************)
(* Model of src/terminal-options.c (gnome-terminal): the command-line      *)
(* prescanner, the option callbacks that build the list of InitialWindow / *)
(* InitialTab, the post-parse hook digest_options_callback and             *)
(* terminal_options_merge_config.                                          *)
(*                                                                         *)
(* g_option_context_parse (GLib) turns the argument list that the          *)
(* prescanner leaves into calls of the callbacks, in command-line order,   *)
(* stops at the first callback that returns FALSE and runs the post-parse  *)
(* hook when all of them returned TRUE.  It is modelled as an environment  *)
(* that may call any callback with any value.                              *)
(***************************************************************************)
EXTENDS Integers, Sequences, FiniteSets, TLC

(* ------------------------------ bounds ------------------------------- *)

\* option callbacks g_option_context_parse runs in one parse, plus the
\* calls of terminal_options_merge_config the caller makes after it
MaxEvents == 2
\* arguments after argv[0] in the prescanner's own specification
MaxScanArgs == 3

(* ------------------------------ values ------------------------------- *)

\* a NULL char*
NULLSTR == "<null>"
\* a NULL char** (the code never builds an empty non-NULL argv)
NULLARGV == << >>
\* an unset GError*
NOERROR == "<none>"
\* no diagnostic printed
NONOTICE == "<none>"

\* g_set_error on a slot that already holds an error keeps the old one
set_error(err, kind) == IF err = NOERROR THEN kind ELSE err

Last(s) == s[Len(s)]

RECURSIVE SeqsUpTo(_, _)
SeqsUpTo(S, n) ==
  IF n = 0 THEN { << >> }
  ELSE LET shorter == SeqsUpTo(S, n - 1)
       IN  shorter \cup { Append(s, x) : s \in shorter, x \in S }

(* ------------------- InitialTab / InitialWindow ----------------------- *)

\* zoom in units of 1e-6
ZOOM_ONE == 1000000

\* g_slice_new does not clear the block and initial_tab_new assigns every
\* member but wait: the value of wait in a new tab is whatever the block
\* held, here the parameter uninit_wait.
initial_tab_new(profile, uninit_wait) ==
  [ profile     |-> profile,
    exec_argv   |-> NULLARGV,
    title       |-> NULLSTR,
    working_dir |-> NULLSTR,
    zoom        |-> ZOOM_ONE,
    zoom_set    |-> FALSE,
    active      |-> FALSE,
    fd_list     |-> << >>,
    fd_array    |-> << >>,
    wait        |-> uninit_wait ]

\* a slip: the source tag left at the zero of g_slice_new0
initial_window_new_untagged(source_tag) ==
  [ source_tag            |-> 0,
    tabs                  |-> << >>,
    role                  |-> NULLSTR,
    geometry              |-> NULLSTR,
    force_menubar_state   |-> FALSE,
    menubar_state         |-> FALSE,
    start_fullscreen      |-> FALSE,
    start_maximized       |-> FALSE,
    implicit_first_window |-> FALSE ]

\* g_slice_new0: every member but source_tag is zero
initial_window_new(source_tag) ==
  [ source_tag            |-> source_tag,
    tabs                  |-> << >>,
    role                  |-> NULLSTR,
    geometry              |-> NULLSTR,
    force_menubar_state   |-> FALSE,
    menubar_state         |-> FALSE,
    start_fullscreen      |-> FALSE,
    start_maximized       |-> FALSE,
    implicit_first_window |-> FALSE ]

\* source tags (terminal-options.h); 0 is what add_new_window passes
SOURCE_DEFAULT == 0
SOURCE_SESSION == 1

(* --------------------------- apply_defaults --------------------------- *)

\* what apply_defaults leaves in the window
apply_defaults_iw(o, iw) ==
  LET r1 == IF o.default_role # NULLSTR
            THEN [iw EXCEPT !.role = o.default_role] ELSE iw
      r2 == IF r1.geometry = NULLSTR
            THEN [r1 EXCEPT !.geometry = o.default_geometry] ELSE r1
      r3 == IF o.default_window_menubar_forced
            THEN [r2 EXCEPT !.force_menubar_state = TRUE,
                            !.menubar_state = o.default_window_menubar_state]
            ELSE r2
  IN  [r3 EXCEPT !.start_fullscreen = @ \/ o.default_fullscreen,
                 !.start_maximized  = @ \/ o.default_maximize]

\* what apply_defaults leaves in the options
apply_defaults_options(o) ==
  [o EXCEPT !.default_role = NULLSTR,
            !.default_window_menubar_forced = FALSE]

(* ----------------- add_new_window / ensure_top_window ----------------- *)

add_new_window(o, profile, implicit_if_first_window, uninit_wait) ==
  LET iw0 == [initial_window_new(0) EXCEPT
                !.implicit_first_window =
                    (o.initial_windows = << >>) /\ implicit_if_first_window,
                !.tabs = << initial_tab_new(profile, uninit_wait) >>]
      iw  == apply_defaults_iw(o, iw0)
  IN  [apply_defaults_options(o) EXCEPT
         !.initial_windows = Append(o.initial_windows, iw)]

ensure_top_window(o, implicit_if_first_window, uninit_wait) ==
  IF o.initial_windows = << >>
  THEN add_new_window(o, NULLSTR, implicit_if_first_window, uninit_wait)
  ELSE o

\* g_assert_nonnull (iw->tabs) in ensure_top_window and ensure_top_tab:
\* TRUE when the assertion fails on the window ensure_top_window returns
top_window_assert_fails(o) ==
  /\ o.initial_windows # << >>
  /\ Last(o.initial_windows).tabs = << >>

\* the options after ensure_top_tab (it may create the first window)
ensure_top_tab(o, uninit_wait) == ensure_top_window(o, TRUE, uninit_wait)

\* the tab ensure_top_tab returns: the last tab of the last window
top_tab(o) == Last(Last(o.initial_windows).tabs)

\* a slip: the assignment goes to the first tab of the last window
set_top_tab_first(o, it) ==
  [o EXCEPT !.initial_windows[Len(o.initial_windows)].tabs[1] = it]

\* assignment through the InitialTab* that ensure_top_tab returned
set_top_tab(o, it) ==
  LET n  == Len(o.initial_windows)
      iw == o.initial_windows[n]
  IN  [o EXCEPT !.initial_windows[n].tabs[Len(iw.tabs)] = it]

\* assignment through g_list_last (options->initial_windows)->data
set_last_window(o, iw) ==
  [o EXCEPT !.initial_windows[Len(o.initial_windows)] = iw]

(* ------------------------------ prescan ------------------------------- *)

\* argv[i] with the C index
Arg(av, i) == av[i + 1]

\* a slip: the long form of the switch forgotten
is_execute_short_only(tok) == tok = "-x"

is_execute(tok) == tok = "-x" \/ tok = "--execute"
is_dashdash(tok) == tok = "--"

\* a slip: *argcp set after the switch was skipped, so the switch stays
RECURSIVE prescan_keeps_switch(_, _, _)
prescan_keeps_switch(av, argc, i) ==
  IF i >= argc
  THEN [execute |-> FALSE, exec_argv |-> NULLARGV, argc |-> argc,
        deprecated |-> FALSE]
  ELSE IF ~is_execute(Arg(av, i)) /\ ~is_dashdash(Arg(av, i))
  THEN prescan_keeps_switch(av, argc, i + 1)
  ELSE IF i + 1 = argc
  THEN [execute |-> is_execute(Arg(av, i)), exec_argv |-> NULLARGV,
        argc |-> argc, deprecated |-> is_execute(Arg(av, i))]
  ELSE [execute |-> is_execute(Arg(av, i)),
        exec_argv |-> [j \in 1 .. (argc - (i + 1)) |-> Arg(av, i + j)],
        argc |-> i + 1, deprecated |-> is_execute(Arg(av, i))]

\* the loop of terminal_options_parse that looks for -x, --execute or --,
\* from C index i: the execute flag, the collected exec_argv and *argcp
RECURSIVE prescan(_, _, _)
prescan(av, argc, i) ==
  IF i >= argc
  THEN [execute |-> FALSE, exec_argv |-> NULLARGV, argc |-> argc,
        deprecated |-> FALSE]
  ELSE IF ~is_execute(Arg(av, i)) /\ ~is_dashdash(Arg(av, i))
  THEN prescan(av, argc, i + 1)
  ELSE IF i + 1 = argc
  THEN [execute |-> is_execute(Arg(av, i)), exec_argv |-> NULLARGV,
        argc |-> argc, deprecated |-> is_execute(Arg(av, i))]
  ELSE [execute |-> is_execute(Arg(av, i)),
        exec_argv |-> [j \in 1 .. (argc - (i + 1)) |-> Arg(av, i + j)],
        argc |-> i, deprecated |-> is_execute(Arg(av, i))]

(* --------------------------- g_shell_parse_argv ----------------------- *)

\* A command line is a sequence of one-character strings.  Words are split
\* at unquoted spaces; '...' and "..." quote; an unterminated quote and a
\* text without any word are errors.
RECURSIVE shell_split(_, _, _, _, _, _)
shell_split(s, i, mode, cur, intok, toks) ==
  IF i > Len(s)
  THEN IF mode # "none"
       THEN [ok |-> FALSE, argv |-> NULLARGV]
       ELSE LET all == IF intok THEN Append(toks, cur) ELSE toks
            IN  [ok |-> all # << >>, argv |-> all]
  ELSE LET c == s[i]
       IN  IF mode = "none"
           THEN IF c = " "
                THEN shell_split(s, i + 1, "none", "", FALSE,
                                 IF intok THEN Append(toks, cur) ELSE toks)
                ELSE IF c = "'"
                THEN shell_split(s, i + 1, "single", cur, TRUE, toks)
                ELSE IF c = "\""
                THEN shell_split(s, i + 1, "double", cur, TRUE, toks)
                ELSE shell_split(s, i + 1, "none", cur \o c, TRUE, toks)
           ELSE IF (mode = "single" /\ c = "'") \/ (mode = "double" /\ c = "\"")
           THEN shell_split(s, i + 1, "none", cur, TRUE, toks)
           ELSE shell_split(s, i + 1, mode, cur \o c, TRUE, toks)

g_shell_parse_argv(s) == shell_split(s, 1, "none", "", FALSE, << >>)

(* --------------------------- profile resolver ------------------------- *)

\* names the profiles list knows, and the uuid of each
ProfileUuid == [n \in {"work"} |-> "uuid-work"]
\* names an option may give
ProfileNames == {"work", "nosuch"}

\* what the profiles list may hold as its default profile: none, or a uuid
ProfileDefaults == {NULLSTR, "uuid-default"}

\* terminal_profiles_list_dup_uuid_or_name: the uuid, or NULL with an error;
\* dflt is the uuid of the default profile, NULL when there is none
dup_uuid_or_name(name, dflt) ==
  IF name = NULLSTR THEN dflt
  ELSE IF name \in DOMAIN ProfileUuid THEN ProfileUuid[name]
  ELSE NULLSTR

(* ------------------------------- state -------------------------------- *)

VARIABLES
  argv_in,     \* the argument vector terminal_options_parse was given
  argv,        \* *argvp cut to *argcp: what g_option_context_parse gets
  options,     \* the TerminalOptions
  error,       \* the caller's GError slot: NOERROR or the error's kind
  notice,      \* the diagnostic the last step printed
  pc,          \* where the run is
  nevents      \* callbacks and merges run so far

vars == << argv_in, argv, options, error, notice, pc, nevents >>

\* g_new0 and the assignments at the top of terminal_options_parse
options_new ==
  [ initial_windows               |-> << >>,
    default_profile               |-> NULLSTR,
    default_title                 |-> NULLSTR,
    default_working_dir           |-> "cwd",
    default_role                  |-> NULLSTR,
    default_geometry              |-> NULLSTR,
    default_window_menubar_forced |-> FALSE,
    default_window_menubar_state  |-> TRUE,
    default_fullscreen            |-> FALSE,
    default_maximize              |-> FALSE,
    zoom                          |-> ZOOM_ONE,
    zoom_set                      |-> FALSE,
    execute                       |-> FALSE,
    exec_argv                     |-> NULLARGV,
    any_wait                      |-> FALSE,
    server_app_id                 |-> NULLSTR ]

\* tokens of the argument vectors of the prescanner's specification
ScanTokens == {"-x", "--execute", "--", "f", "b"}

InitWith(vectors) ==
  /\ argv_in \in vectors
  /\ argv = argv_in
  /\ options = options_new
  /\ error = NOERROR
  /\ notice = NONOTICE
  /\ pc = "start"
  /\ nevents = 0

\* The main specification: no switch, -x alone, or -x or -- followed by a
\* command.  The options that stand before the switch are the callbacks
\* g_option_context_parse runs.
MainVectors ==
  { <<"gnome-terminal">>,
    <<"gnome-terminal", "-x">>,
    <<"gnome-terminal", "-x", "f">>,
    <<"gnome-terminal", "--", "f", "b">> }

Init == InitWith(MainVectors)

\* the prescanner alone sees every argv[0], also one that looks like a switch
InitScan ==
  InitWith({ <<p>> \o s : p \in {"gnome-terminal", "--"},
                          s \in SeqsUpTo(ScanTokens, MaxScanArgs) })

(* ------------------------ terminal_options_parse ---------------------- *)

\* the prescan loop of terminal_options_parse
Prescan ==
  /\ pc = "start"
  /\ LET r == prescan(argv_in, Len(argv_in), 1)
     IN  /\ options' = [options EXCEPT !.execute = r.execute,
                                       !.exec_argv = r.exec_argv]
         /\ argv' = SubSeq(argv_in, 1, r.argc)
         /\ notice' = IF r.deprecated THEN "deprecated" ELSE NONOTICE
  /\ pc' = "parse"
  /\ UNCHANGED << argv_in, error, nevents >>

\* a callback is being run by g_option_context_parse
InParse == pc = "parse" /\ nevents < MaxEvents

\* a callback returns: TRUE (ok) or FALSE, leaving o, err and the diagnostic
Return(ok, o, err, note) ==
  /\ options' = o
  /\ error' = err
  /\ notice' = note
  /\ pc' = IF ok THEN "parse" ELSE "cb_failed"
  /\ nevents' = nevents + 1
  /\ UNCHANGED << argv_in, argv >>

\* g_assert_nonnull fails: the process aborts
Abort ==
  /\ pc' = "abort"
  /\ UNCHANGED << argv_in, argv, options, error, notice, nevents >>

(* ------------------------- window and tab flags ----------------------- *)

\* a slip: --window asks for the mark of an implicit first window
option_window_callback_implicit(value, profiles_default, uninit_wait) ==
  /\ InParse
  /\ LET first    == dup_uuid_or_name(value, profiles_default)
         fallback == value # NULLSTR /\ first = NULLSTR
         profile  == IF value = NULLSTR THEN NULLSTR
                     ELSE IF fallback THEN dup_uuid_or_name(NULLSTR, profiles_default)
                     ELSE first
         note     == IF fallback THEN "profile-fallback" ELSE NONOTICE
         err      == IF fallback THEN NOERROR ELSE error
     IN  IF value # NULLSTR /\ profile = NULLSTR
         THEN Return(FALSE, options, set_error(err, "no-profile"), note)
         ELSE Return(TRUE, add_new_window(options, profile, TRUE, uninit_wait),
                     err, note)

\* --window (value NULL), --window-with-profile
option_window_callback(value, profiles_default, uninit_wait) ==
  /\ InParse
  /\ LET first    == dup_uuid_or_name(value, profiles_default)
         fallback == value # NULLSTR /\ first = NULLSTR
         profile  == IF value = NULLSTR THEN NULLSTR
                     ELSE IF fallback THEN dup_uuid_or_name(NULLSTR, profiles_default)
                     ELSE first
         note     == IF fallback THEN "profile-fallback" ELSE NONOTICE
         \* g_clear_error before the second lookup
         err      == IF fallback THEN NOERROR ELSE error
     IN  IF value # NULLSTR /\ profile = NULLSTR
         THEN Return(FALSE, options, set_error(err, "no-profile"), note)
         ELSE Return(TRUE, add_new_window(options, profile, FALSE, uninit_wait),
                     err, note)

\* a slip: --tab opens a window of its own also when there is one
option_tab_callback_new_window(value, profiles_default, uninit_wait) ==
  /\ InParse
  /\ LET profile == IF value = NULLSTR THEN NULLSTR
                    ELSE dup_uuid_or_name(value, profiles_default)
     IN  IF value # NULLSTR /\ profile = NULLSTR
         THEN Return(FALSE, options, set_error(error, "no-profile"), NONOTICE)
         ELSE Return(TRUE, add_new_window(options, profile, TRUE, uninit_wait),
                     error, NONOTICE)

\* --tab (value NULL), --tab-with-profile
option_tab_callback(value, profiles_default, uninit_wait) ==
  /\ InParse
  /\ LET profile == IF value = NULLSTR THEN NULLSTR
                    ELSE dup_uuid_or_name(value, profiles_default)
     IN  IF value # NULLSTR /\ profile = NULLSTR
         THEN Return(FALSE, options, set_error(error, "no-profile"), NONOTICE)
         ELSE IF options.initial_windows # << >>
         THEN LET iw == Last(options.initial_windows)
              IN  Return(TRUE,
                         set_last_window(options,
                           [iw EXCEPT !.tabs =
                              Append(iw.tabs, initial_tab_new(profile, uninit_wait))]),
                         error, NONOTICE)
         ELSE Return(TRUE, add_new_window(options, profile, TRUE, uninit_wait),
                     error, NONOTICE)

(* --------------------------- per-window flags ------------------------- *)

Roles == {"A", "B"}

option_role_callback(value) ==
  /\ InParse
  /\ IF options.initial_windows # << >>
     THEN Return(TRUE,
                 set_last_window(options,
                   [Last(options.initial_windows) EXCEPT !.role = value]),
                 error, NONOTICE)
     ELSE IF options.default_role = NULLSTR
     THEN Return(TRUE, [options EXCEPT !.default_role = value], error, NONOTICE)
     ELSE Return(FALSE, options, set_error(error, "two-roles"), NONOTICE)

\* a slip: the test for a repeated option taken for a test of a conflict
option_menubar_callback_conflict(state) ==
  /\ InParse
  /\ IF options.initial_windows # << >>
     THEN LET iw == Last(options.initial_windows)
          IN  IF iw.force_menubar_state /\ iw.menubar_state # state
              THEN Return(TRUE, options, error, "given-twice")
              ELSE Return(TRUE,
                          set_last_window(options,
                            [iw EXCEPT !.force_menubar_state = TRUE,
                                       !.menubar_state = state]),
                          error, NONOTICE)
     ELSE Return(TRUE,
                 [options EXCEPT !.default_window_menubar_forced = TRUE,
                                 !.default_window_menubar_state = state],
                 error, NONOTICE)

\* option_show_menubar_callback (state TRUE) and
\* option_hide_menubar_callback (state FALSE): the two differ in state only
option_menubar_callback(state) ==
  /\ InParse
  /\ IF options.initial_windows # << >>
     THEN LET iw == Last(options.initial_windows)
          IN  IF iw.force_menubar_state /\ iw.menubar_state = state
              THEN Return(TRUE, options, error, "given-twice")
              ELSE Return(TRUE,
                          set_last_window(options,
                            [iw EXCEPT !.force_menubar_state = TRUE,
                                       !.menubar_state = state]),
                          error, NONOTICE)
     ELSE Return(TRUE,
                 [options EXCEPT !.default_window_menubar_forced = TRUE,
                                 !.default_window_menubar_state = state],
                 error, NONOTICE)

option_show_menubar_callback == option_menubar_callback(TRUE)

option_hide_menubar_callback == option_menubar_callback(FALSE)

option_maximize_callback ==
  /\ InParse
  /\ IF options.initial_windows # << >>
     THEN Return(TRUE,
                 set_last_window(options,
                   [Last(options.initial_windows) EXCEPT !.start_maximized = TRUE]),
                 error, NONOTICE)
     ELSE Return(TRUE, [options EXCEPT !.default_maximize = TRUE], error, NONOTICE)

option_fullscreen_callback ==
  /\ InParse
  /\ IF options.initial_windows # << >>
     THEN Return(TRUE,
                 set_last_window(options,
                   [Last(options.initial_windows) EXCEPT !.start_fullscreen = TRUE]),
                 error, NONOTICE)
     ELSE Return(TRUE, [options EXCEPT !.default_fullscreen = TRUE], error, NONOTICE)

Geometries == {"80x24"}

\* a slip: the geometry recorded as the default whether or not there is a
\* window
option_geometry_callback_default(value) ==
  /\ InParse
  /\ Return(TRUE, [options EXCEPT !.default_geometry = value], error, NONOTICE)

option_geometry_callback(value) ==
  /\ InParse
  /\ IF options.initial_windows # << >>
     THEN Return(TRUE,
                 set_last_window(options,
                   [Last(options.initial_windows) EXCEPT !.geometry = value]),
                 error, NONOTICE)
     ELSE Return(TRUE, [options EXCEPT !.default_geometry = value], error, NONOTICE)

(* ---------------------------- per-tab flags --------------------------- *)

\* the callbacks that call ensure_top_tab only when a window exists, and
\* store into GlobalDefaults otherwise: update(it) is the tab assignment,
\* dflt the options with the default assigned
top_tab_or_default(update(_), dflt, err, note) ==
  IF options.initial_windows # << >>
  THEN IF top_window_assert_fails(options)
       THEN Abort
       ELSE Return(TRUE, set_top_tab(options, update(top_tab(options))), err, note)
  ELSE Return(TRUE, dflt, err, note)

\* one-character strings make up a command line
Commands == { <<"f">>, <<"f", " ", "b">>, <<"'", "f">> }

\* a slip: the command always put on a tab, made for it when there is none
option_command_callback_on_tab(value) ==
  /\ InParse
  /\ LET r == g_shell_parse_argv(value)
         update(it) == [it EXCEPT !.exec_argv = r.argv]
     IN  IF ~r.ok
         THEN Return(FALSE, options, set_error(error, "bad-command"), "deprecated")
         ELSE IF top_window_assert_fails(options)
         THEN Abort
         ELSE LET o1 == ensure_top_tab(options, FALSE)
              IN  Return(TRUE, set_top_tab(o1, update(top_tab(o1))), error,
                         "deprecated")

\* a slip: with no window, a command that is buffered already is kept
option_command_callback_keeps_buffered(value) ==
  /\ InParse
  /\ LET r == g_shell_parse_argv(value)
         update(it) == [it EXCEPT !.exec_argv = r.argv]
     IN  IF ~r.ok
         THEN Return(FALSE, options, set_error(error, "bad-command"), "deprecated")
         ELSE top_tab_or_default(update,
                                 IF options.exec_argv = NULLARGV
                                 THEN [options EXCEPT !.exec_argv = r.argv]
                                 ELSE options,
                                 error, "deprecated")

option_command_callback(value) ==
  /\ InParse
  /\ LET r == g_shell_parse_argv(value)
         update(it) == [it EXCEPT !.exec_argv = r.argv]
     IN  IF ~r.ok
         THEN Return(FALSE, options, set_error(error, "bad-command"), "deprecated")
         ELSE top_tab_or_default(update, [options EXCEPT !.exec_argv = r.argv],
                                 error, "deprecated")

option_profile_cb(value, profiles_default) ==
  /\ InParse
  /\ LET first    == dup_uuid_or_name(value, profiles_default)
         fallback == first = NULLSTR
         profile  == IF fallback THEN dup_uuid_or_name(NULLSTR, profiles_default)
                     ELSE first
         note     == IF fallback THEN "profile-fallback" ELSE NONOTICE
         err      == IF fallback THEN NOERROR ELSE error
         update(it) == [it EXCEPT !.profile = profile]
     IN  IF profile = NULLSTR
         THEN Return(FALSE, options, set_error(err, "no-profile"), note)
         ELSE top_tab_or_default(update, [options EXCEPT !.default_profile = profile],
                                 err, note)

Titles == {"T"}

option_title_callback(value) ==
  /\ InParse
  /\ LET update(it) == [it EXCEPT !.title = value]
     IN  top_tab_or_default(update, [options EXCEPT !.default_title = value],
                            error, NONOTICE)

Directories == {"/d"}

option_working_directory_callback(value) ==
  /\ InParse
  /\ LET update(it) == [it EXCEPT !.working_dir = value]
     IN  top_tab_or_default(update, [options EXCEPT !.default_working_dir = value],
                            error, NONOTICE)

\* the callbacks that call ensure_top_tab whether or not a window exists
on_top_tab(o, update(_), uninit_wait, err) ==
  IF top_window_assert_fails(o)
  THEN Abort
  ELSE LET o1 == ensure_top_tab(o, uninit_wait)
       IN  Return(TRUE, set_top_tab(o1, update(top_tab(o1))), err, NONOTICE)

\* a slip: with no window the flag is only noted, and no window is made
option_wait_cb_needs_window(uninit_wait) ==
  /\ InParse
  /\ IF options.any_wait
     THEN Return(FALSE, options, set_error(error, "wait-twice"), NONOTICE)
     ELSE IF options.initial_windows = << >>
     THEN Return(TRUE, [options EXCEPT !.any_wait = TRUE], error, NONOTICE)
     ELSE LET update(it) == [it EXCEPT !.wait = TRUE]
          IN  on_top_tab([options EXCEPT !.any_wait = TRUE], update,
                         uninit_wait, error)

option_wait_cb(uninit_wait) ==
  /\ InParse
  /\ IF options.any_wait
     THEN Return(FALSE, options, set_error(error, "wait-twice"), NONOTICE)
     ELSE LET update(it) == [it EXCEPT !.wait = TRUE]
          IN  on_top_tab([options EXCEPT !.any_wait = TRUE], update,
                         uninit_wait, error)

option_active_callback(uninit_wait) ==
  /\ InParse
  /\ LET update(it) == [it EXCEPT !.active = TRUE]
     IN  on_top_tab(options, update, uninit_wait, error)

\* the values of --fd: text that g_ascii_strtoll cannot read (parses FALSE),
\* or the gint64 it reads, high * 2^32 + v with v in the range of int: the
\* test against G_MININT and G_MAXINT is a test of high, and int fd = v
\* keeps v
FdValues ==
  { [parses |-> FALSE, high |-> 0, v |-> 0] } \cup
  { [parses |-> TRUE, high |-> 0, v |-> n] : n \in {-1, 0, 1, 2, 3, 4} } \cup
  { [parses |-> TRUE, high |-> 1, v |-> 3] }

\* a slip: the loop compares the list index, not the descriptor
fd_array_has_index(it, fd) ==
  \E i \in 1 .. Len(it.fd_array) : it.fd_array[i].index = fd

\* some e in it->fd_array has e->fd == fd
fd_array_has(it, fd) == \E i \in 1 .. Len(it.fd_array) : it.fd_array[i].fd = fd

\* a slip: the local index counted from one
pass_fd_append_from_one(it, fd) ==
  LET idx == Len(it.fd_list) + 1
  IN  [it EXCEPT !.fd_list = Append(@, fd),
                 !.fd_array = Append(@, [index |-> idx, fd |-> fd])]

\* g_unix_fd_list_append followed by g_array_append_val
pass_fd_append(it, fd) ==
  LET idx == Len(it.fd_list)
  IN  [it EXCEPT !.fd_list = Append(@, fd),
                 !.fd_array = Append(@, [index |-> idx, fd |-> fd])]

\* append_ok: whether g_unix_fd_list_append could duplicate the descriptor
option_pass_fd_cb(value, uninit_wait, append_ok) ==
  /\ InParse
  /\ IF ~value.parses \/ (value.high = 0 /\ value.v = -1) \/ value.high # 0
     THEN Return(FALSE, options, set_error(error, "bad-fd"), NONOTICE)
     ELSE IF value.v \in {0, 1, 2}
     THEN Return(FALSE, options, set_error(error, "stdio-fd"), NONOTICE)
     ELSE IF top_window_assert_fails(options)
     THEN Abort
     ELSE LET o1 == ensure_top_tab(options, uninit_wait)
              it == top_tab(o1)
          IN  IF fd_array_has(it, value.v)
              THEN Return(FALSE, o1, set_error(error, "fd-twice"), NONOTICE)
              ELSE IF ~append_ok
              THEN Return(FALSE, o1, set_error(error, "fd-append"), NONOTICE)
              ELSE Return(TRUE, set_top_tab(o1, pass_fd_append(it, value.v)),
                          error, NONOTICE)

(* -------------------------------- zoom -------------------------------- *)

\* TERMINAL_SCALE_MINIMUM and TERMINAL_SCALE_MAXIMUM, in units of 1e-6
TERMINAL_SCALE_MINIMUM == 279082
TERMINAL_SCALE_MAXIMUM == 3583181
\* the margin 1e-6, in units of 1e-6
ZOOM_EPSILON == 1

\* the values of --zoom: text g_strtod does not read to its end (parses
\* FALSE) or the number read, in units of 1e-6
\* The double g_strtod reads from "nan": it stands for no number of the
\* scale (no text the model reads yields the number -1e-6 itself), and a
\* comparison of doubles that has it on either side is false.
ZOOM_NAN == -1

double_lt(a, b) == a # ZOOM_NAN /\ b # ZOOM_NAN /\ a < b
double_gt(a, b) == a # ZOOM_NAN /\ b # ZOOM_NAN /\ a > b

ZoomValues ==
  { [parses |-> FALSE, v |-> 0] } \cup
  { [parses |-> TRUE, v |-> n] : n \in {100000, 2500000, 9000000, ZOOM_NAN} }

zoom_clamp(zoom) ==
  LET z1 == IF double_lt(zoom, TERMINAL_SCALE_MINIMUM + ZOOM_EPSILON)
            THEN TERMINAL_SCALE_MINIMUM ELSE zoom
  IN  IF double_gt(z1, TERMINAL_SCALE_MAXIMUM - ZOOM_EPSILON)
      THEN TERMINAL_SCALE_MAXIMUM ELSE z1

option_zoom_callback(value) ==
  /\ InParse
  /\ IF ~value.parses
     THEN Return(FALSE, options, set_error(error, "bad-zoom"), NONOTICE)
     ELSE LET zoom == zoom_clamp(value.v)
              note == IF double_gt(value.v, TERMINAL_SCALE_MAXIMUM - ZOOM_EPSILON)
                      THEN "zoom-too-large"
                      ELSE IF double_lt(value.v, TERMINAL_SCALE_MINIMUM + ZOOM_EPSILON)
                      THEN "zoom-too-small" ELSE NONOTICE
              update(it) == [it EXCEPT !.zoom = zoom, !.zoom_set = TRUE]
          IN  top_tab_or_default(update,
                                 [options EXCEPT !.zoom = zoom, !.zoom_set = TRUE],
                                 error, note)

(* ------------------------------- app id ------------------------------- *)

\* the values of --app-id, and whether g_application_id_is_valid accepts
AppIds == {"org.gnome.T", "nodots"}
g_application_id_is_valid(value) == value = "org.gnome.T"

option_app_id_callback(value) ==
  /\ InParse
  /\ IF ~g_application_id_is_valid(value)
     THEN Return(FALSE, options, set_error(error, "bad-app-id"), NONOTICE)
     ELSE Return(TRUE, [options EXCEPT !.server_app_id = value], error, NONOTICE)

(* -------------------- terminal_options_merge_config ------------------- *)

\* the compatibility ceiling
TERMINAL_CONFIG_COMPAT_VERSION == 1

\* A document: has_group says whether the top group exists; version and
\* compat_version are 0 when the key is missing (g_key_file_get_integer);
\* has_windows says whether the windows list exists.  A window group:
\* has_tabs says whether its tabs list exists; a string key that is missing
\* reads as NULL, a boolean key that is missing as FALSE.
TabGroup(name, has_command, command) ==
  [ name |-> name, profile |-> NULLSTR, working_dir |-> NULLSTR,
    title |-> NULLSTR, has_command |-> has_command, command |-> command ]

WindowGroup(has_tabs, tabs, active, role, fullscreen, has_menubar) ==
  [ has_tabs |-> has_tabs, tabs |-> tabs, active |-> active, role |-> role,
    geometry |-> NULLSTR, fullscreen |-> fullscreen, maximized |-> FALSE,
    has_menubar |-> has_menubar, menubar |-> FALSE ]

Document(has_group, version, compat_version, has_windows, windows) ==
  [ has_group |-> has_group, version |-> version,
    compat_version |-> compat_version, has_windows |-> has_windows,
    windows |-> windows ]

TabPlain   == TabGroup("T0", FALSE, << >>)
TabCommand == TabGroup("T1", TRUE, <<"f">>)
TabBroken  == TabGroup("T2", TRUE, <<"'", "f">>)

WinFull      == WindowGroup(TRUE, <<TabPlain, TabCommand>>, "T1", "R", TRUE, TRUE)
WinPlain     == WindowGroup(TRUE, <<TabPlain>>, NULLSTR, NULLSTR, FALSE, FALSE)
WinNoTabsKey == WindowGroup(FALSE, << >>, NULLSTR, NULLSTR, FALSE, FALSE)
WinEmptyTabs == WindowGroup(TRUE, << >>, NULLSTR, NULLSTR, FALSE, FALSE)
WinBroken    == WindowGroup(TRUE, <<TabBroken>>, NULLSTR, NULLSTR, FALSE, FALSE)

Documents ==
  { Document(TRUE, 1, 1, TRUE, <<WinFull>>),
    Document(TRUE, 1, 1, TRUE, <<WinPlain, WinNoTabsKey>>),
    Document(TRUE, 1, 1, TRUE, <<WinEmptyTabs>>),
    Document(TRUE, 1, 1, TRUE, <<WinPlain, WinBroken>>),
    Document(FALSE, 0, 0, FALSE, << >>),
    Document(TRUE, 0, 1, TRUE, <<WinPlain>>),
    Document(TRUE, -1, 1, TRUE, <<WinPlain>>),
    Document(TRUE, 1, 0, TRUE, <<WinPlain>>),
    Document(TRUE, 1, TERMINAL_CONFIG_COMPAT_VERSION + 1, TRUE, <<WinPlain>>),
    Document(TRUE, 1, 1, FALSE, << >>) }

\* the wait member of each tab a merge creates is uninitialised:
\* uninit[i][j] is what the j-th tab of the i-th window group finds there
RECURSIVE MaxTabs(_, _)
MaxTabs(windows, i) ==
  IF i > Len(windows) THEN 0
  ELSE LET rest == MaxTabs(windows, i + 1)
           here == Len(windows[i].tabs)
       IN  IF here > rest THEN here ELSE rest

UninitChoices(doc) ==
  { u \in [1 .. Len(doc.windows) -> [1 .. MaxTabs(doc.windows, 1) -> BOOLEAN]] :
      \* a place no tab is made for holds nothing to choose
      \A i \in 1 .. Len(doc.windows) : \A j \in 1 .. MaxTabs(doc.windows, 1) :
        j > Len(doc.windows[i].tabs) => ~u[i][j] }

\* a slip: the result of g_strcmp0 read as "equal" when it is not 0
RECURSIVE merge_tabs_strcmp_as_bool(_, _, _, _, _)
merge_tabs_strcmp_as_bool(tab_groups, j, active_terminal, uninit, tabs) ==
  IF j > Len(tab_groups)
  THEN [tabs |-> tabs, have_error |-> FALSE]
  ELSE LET tg  == tab_groups[j]
           it0 == initial_tab_new(tg.profile, uninit[j])
           it1 == [it0 EXCEPT !.active = (active_terminal # tg.name),
                              !.working_dir = tg.working_dir,
                              !.title = tg.title]
           r   == g_shell_parse_argv(tg.command)
       IN  IF tg.has_command /\ ~r.ok
           THEN [tabs |-> Append(tabs, it1), have_error |-> TRUE]
           ELSE merge_tabs_strcmp_as_bool(
                  tab_groups, j + 1, active_terminal, uninit,
                  Append(tabs, IF tg.has_command
                               THEN [it1 EXCEPT !.exec_argv = r.argv]
                               ELSE it1))

\* the loop over tab_groups, from index j: the tabs appended to iw->tabs
\* and whether have_error was set
RECURSIVE merge_tabs(_, _, _, _, _)
merge_tabs(tab_groups, j, active_terminal, uninit, tabs) ==
  IF j > Len(tab_groups)
  THEN [tabs |-> tabs, have_error |-> FALSE]
  ELSE LET tg  == tab_groups[j]
           it0 == initial_tab_new(tg.profile, uninit[j])
           it1 == [it0 EXCEPT !.active = (active_terminal = tg.name),
                              !.working_dir = tg.working_dir,
                              !.title = tg.title]
           r   == g_shell_parse_argv(tg.command)
       IN  IF tg.has_command /\ ~r.ok
           THEN [tabs |-> Append(tabs, it1), have_error |-> TRUE]
           ELSE merge_tabs(tab_groups, j + 1, active_terminal, uninit,
                           Append(tabs, IF tg.has_command
                                        THEN [it1 EXCEPT !.exec_argv = r.argv]
                                        ELSE it1))

\* the window of one window group, before its tabs are read
merge_window(o, wg, source_tag) ==
  LET iw0 == apply_defaults_iw(o, initial_window_new(source_tag))
      iw1 == [iw0 EXCEPT !.role = wg.role,
                         !.geometry = wg.geometry,
                         !.start_fullscreen = wg.fullscreen,
                         !.start_maximized = wg.maximized]
  IN  IF wg.has_menubar
      THEN [iw1 EXCEPT !.force_menubar_state = TRUE,
                       !.menubar_state = wg.menubar]
      ELSE iw1

\* the loop over the window groups, from index i
RECURSIVE merge_windows(_, _, _, _, _, _, _)
merge_windows(o, groups, i, initial_windows, err, source_tag, uninit) ==
  IF i > Len(groups)
  THEN [options |-> o, initial_windows |-> initial_windows, error |-> err,
        have_error |-> FALSE]
  ELSE LET wg == groups[i]
       IN  IF ~wg.has_tabs
           THEN merge_windows(o, groups, i + 1, initial_windows,
                              set_error(err, "key-not-found"), source_tag, uninit)
           ELSE LET t  == merge_tabs(wg.tabs, 1, wg.active, uninit[i], << >>)
                    iw == [merge_window(o, wg, source_tag) EXCEPT !.tabs = t.tabs]
                    o1 == apply_defaults_options(o)
                IN  IF t.have_error
                    THEN [options |-> o1,
                          initial_windows |-> Append(initial_windows, iw),
                          error |-> set_error(err, "bad-command"),
                          have_error |-> TRUE]
                    ELSE merge_windows(o1, groups, i + 1,
                                       Append(initial_windows, iw), err,
                                       source_tag, uninit)

\* a slip: the test against the compatibility ceiling left out
terminal_options_merge_config_no_ceiling(o, doc, source_tag, err, uninit) ==
  IF ~doc.has_group
  THEN [ok |-> FALSE, options |-> o, error |-> set_error(err, "invalid-config")]
  ELSE IF doc.version <= 0 \/ doc.compat_version <= 0
  THEN [ok |-> FALSE, options |-> o,
        error |-> set_error(err, "incompatible-config")]
  ELSE IF ~doc.has_windows
  THEN [ok |-> FALSE, options |-> o, error |-> set_error(err, "key-not-found")]
  ELSE LET m == merge_windows(o, doc.windows, 1, << >>, err, source_tag, uninit)
       IN  IF m.have_error
           THEN [ok |-> FALSE, options |-> m.options, error |-> m.error]
           ELSE [ok |-> TRUE,
                 options |-> [m.options EXCEPT !.initial_windows =
                                 o.initial_windows \o m.initial_windows],
                 error |-> m.error]

\* a slip: the windows built before the failure handed over all the same
terminal_options_merge_config_keeps_built(o, doc, source_tag, err, uninit) ==
  IF ~doc.has_group
  THEN [ok |-> FALSE, options |-> o, error |-> set_error(err, "invalid-config")]
  ELSE IF \/ doc.version <= 0
          \/ doc.compat_version <= 0
          \/ doc.compat_version > TERMINAL_CONFIG_COMPAT_VERSION
  THEN [ok |-> FALSE, options |-> o,
        error |-> set_error(err, "incompatible-config")]
  ELSE IF ~doc.has_windows
  THEN [ok |-> FALSE, options |-> o, error |-> set_error(err, "key-not-found")]
  ELSE LET m == merge_windows(o, doc.windows, 1, << >>, err, source_tag, uninit)
       IN  [ok |-> ~m.have_error,
            options |-> [m.options EXCEPT !.initial_windows =
                            o.initial_windows \o m.initial_windows],
            error |-> m.error]

\* a slip: the arguments of g_list_concat in the other order
terminal_options_merge_config_prepends(o, doc, source_tag, err, uninit) ==
  IF ~doc.has_group
  THEN [ok |-> FALSE, options |-> o, error |-> set_error(err, "invalid-config")]
  ELSE IF \/ doc.version <= 0
          \/ doc.compat_version <= 0
          \/ doc.compat_version > TERMINAL_CONFIG_COMPAT_VERSION
  THEN [ok |-> FALSE, options |-> o,
        error |-> set_error(err, "incompatible-config")]
  ELSE IF ~doc.has_windows
  THEN [ok |-> FALSE, options |-> o, error |-> set_error(err, "key-not-found")]
  ELSE LET m == merge_windows(o, doc.windows, 1, << >>, err, source_tag, uninit)
       IN  IF m.have_error
           THEN [ok |-> FALSE, options |-> m.options, error |-> m.error]
           ELSE [ok |-> TRUE,
                 options |-> [m.options EXCEPT !.initial_windows =
                                 m.initial_windows \o o.initial_windows],
                 error |-> m.error]

\* the return value, the options and the error slot after the call
terminal_options_merge_config(o, doc, source_tag, err, uninit) ==
  IF ~doc.has_group
  THEN [ok |-> FALSE, options |-> o, error |-> set_error(err, "invalid-config")]
  ELSE IF \/ doc.version <= 0
          \/ doc.compat_version <= 0
          \/ doc.compat_version > TERMINAL_CONFIG_COMPAT_VERSION
  THEN [ok |-> FALSE, options |-> o,
        error |-> set_error(err, "incompatible-config")]
  ELSE IF ~doc.has_windows
  THEN [ok |-> FALSE, options |-> o, error |-> set_error(err, "key-not-found")]
  ELSE LET m == merge_windows(o, doc.windows, 1, << >>, err, source_tag, uninit)
       IN  IF m.have_error
           THEN [ok |-> FALSE, options |-> m.options, error |-> m.error]
           ELSE [ok |-> TRUE,
                 options |-> [m.options EXCEPT !.initial_windows =
                                 o.initial_windows \o m.initial_windows],
                 error |-> m.error]

\* the names under which g_option_context_parse calls option_load_config_cb
LoadConfigNames == {"--load-config", "--sm-client-state-file"}

load_config_source_tag(option_name) ==
  IF option_name = "load-config" THEN SOURCE_DEFAULT ELSE SOURCE_SESSION

\* loaded: whether g_key_file_load_from_file could read the file
option_load_config_cb(option_name, loaded, doc, uninit) ==
  /\ InParse
  /\ IF ~loaded
     THEN Return(FALSE, options, set_error(error, "file-error"), NONOTICE)
     ELSE LET m == terminal_options_merge_config(
                     options, doc, load_config_source_tag(option_name),
                     error, uninit)
          IN  Return(m.ok, m.options, m.error, NONOTICE)

(* ---------------------- the end of the parse -------------------------- *)

\* g_option_context_parse itself rejects the argument list (an unknown
\* option, a missing value)
g_option_context_parse_error ==
  /\ pc = "parse"
  /\ pc' = "cb_failed"
  /\ error' = set_error(error, "unknown-option")
  /\ notice' = NONOTICE
  /\ UNCHANGED << argv_in, argv, options, nevents >>

\* a slip: the buffered command attached whenever there is one, also when
\* it came after --
digest_options_callback_any_command(uninit_wait) ==
  /\ pc = "parse"
  /\ IF options.execute \/ options.exec_argv # NULLARGV
     THEN IF options.exec_argv = NULLARGV
          THEN /\ pc' = "cb_failed"
               /\ error' = set_error(error, "missing-command")
               /\ UNCHANGED options
          ELSE IF top_window_assert_fails(options)
          THEN /\ pc' = "abort"
               /\ UNCHANGED << options, error >>
          ELSE LET o1 == ensure_top_tab(options, uninit_wait)
                   it == [top_tab(o1) EXCEPT !.exec_argv = options.exec_argv]
               IN  /\ options' = [set_top_tab(o1, it) EXCEPT !.exec_argv = NULLARGV]
                   /\ pc' = "returned"
                   /\ UNCHANGED error
     ELSE /\ pc' = "returned"
          /\ UNCHANGED << options, error >>
  /\ notice' = NONOTICE
  /\ UNCHANGED << argv_in, argv, nevents >>

\* the post-parse hook, run once after the last callback.  When it returns
\* TRUE g_option_context_parse returns TRUE and terminal_options_parse
\* returns the options; what it does to them after the hook (startup_id,
\* display_name) is no part of the model's state.
digest_options_callback(uninit_wait) ==
  /\ pc = "parse"
  /\ IF options.execute
     THEN IF options.exec_argv = NULLARGV
          THEN /\ pc' = "cb_failed"
               /\ error' = set_error(error, "missing-command")
               /\ UNCHANGED options
          ELSE IF top_window_assert_fails(options)
          THEN /\ pc' = "abort"
               /\ UNCHANGED << options, error >>
          ELSE LET o1 == ensure_top_tab(options, uninit_wait)
                   it == [top_tab(o1) EXCEPT !.exec_argv = options.exec_argv]
               IN  /\ options' = [set_top_tab(o1, it) EXCEPT !.exec_argv = NULLARGV]
                   /\ pc' = "returned"
                   /\ UNCHANGED error
     ELSE /\ pc' = "returned"
          /\ UNCHANGED << options, error >>
  /\ notice' = NONOTICE
  /\ UNCHANGED << argv_in, argv, nevents >>

\* terminal_options_free, as far as the model's state goes
terminal_options_free(o) ==
  [o EXCEPT !.initial_windows = << >>,
            !.default_profile = NULLSTR,
            !.default_title = NULLSTR,
            !.default_working_dir = NULLSTR,
            !.default_role = NULLSTR,
            !.default_geometry = NULLSTR,
            !.exec_argv = NULLARGV,
            !.server_app_id = NULLSTR]

\* terminal_options_parse after g_option_context_parse returned FALSE:
\* the options are freed and NULL is returned
terminal_options_parse_fail ==
  /\ pc = "cb_failed"
  /\ options' = terminal_options_free(options)
  /\ pc' = "null"
  /\ notice' = NONOTICE
  /\ UNCHANGED << argv_in, argv, error, nevents >>

(* --------------------------- after the parse -------------------------- *)

\* a caller merges a document into the options the parse returned
merge_config_call(source_tag, doc, uninit) ==
  /\ pc = "returned"
  /\ nevents < MaxEvents
  /\ LET m == terminal_options_merge_config(options, doc, source_tag, error, uninit)
     IN  /\ options' = m.options
         /\ error' = m.error
  /\ nevents' = nevents + 1
  /\ notice' = NONOTICE
  /\ UNCHANGED << argv_in, argv, pc >>

\* a slip: the window marked implicit whatever the setting reads
terminal_options_ensure_window_implicit(mode_is_tab, uninit_wait) ==
  /\ pc = "returned"
  /\ IF top_window_assert_fails(options)
     THEN /\ pc' = "abort"
          /\ UNCHANGED options
     ELSE /\ options' = ensure_top_window(options, TRUE, uninit_wait)
          /\ pc' = "ensured"
  /\ notice' = NONOTICE
  /\ UNCHANGED << argv_in, argv, error, nevents >>

\* mode_is_tab: whether the new-terminal-mode setting reads "tab"
terminal_options_ensure_window(mode_is_tab, uninit_wait) ==
  /\ pc = "returned"
  /\ IF top_window_assert_fails(options)
     THEN /\ pc' = "abort"
          /\ UNCHANGED options
     ELSE /\ options' = ensure_top_window(options, mode_is_tab, uninit_wait)
          /\ pc' = "ensured"
  /\ notice' = NONOTICE
  /\ UNCHANGED << argv_in, argv, error, nevents >>

(* --------------------------- specifications --------------------------- *)

Next ==
  \/ Prescan
  \/ \E v \in {NULLSTR} \cup ProfileNames, d \in ProfileDefaults, w \in BOOLEAN :
       option_window_callback(v, d, w)
  \/ \E v \in {NULLSTR} \cup ProfileNames, d \in ProfileDefaults, w \in BOOLEAN :
       option_tab_callback(v, d, w)
  \/ \E v \in Roles : option_role_callback(v)
  \/ option_show_menubar_callback
  \/ option_hide_menubar_callback
  \/ option_maximize_callback
  \/ option_fullscreen_callback
  \/ \E v \in Geometries : option_geometry_callback(v)
  \/ \E v \in Commands : option_command_callback(v)
  \/ \E v \in ProfileNames, d \in ProfileDefaults : option_profile_cb(v, d)
  \/ \E v \in Titles : option_title_callback(v)
  \/ \E v \in Directories : option_working_directory_callback(v)
  \/ \E w \in BOOLEAN : option_wait_cb(w)
  \/ \E w \in BOOLEAN : option_active_callback(w)
  \/ \E v \in FdValues, w \in BOOLEAN, a \in BOOLEAN : option_pass_fd_cb(v, w, a)
  \/ \E v \in ZoomValues : option_zoom_callback(v)
  \/ \E v \in AppIds : option_app_id_callback(v)
  \/ \E n \in LoadConfigNames, l \in BOOLEAN, d \in Documents :
       \E u \in UninitChoices(d) : option_load_config_cb(n, l, d, u)
  \/ g_option_context_parse_error
  \/ \E w \in BOOLEAN : digest_options_callback(w)
  \/ terminal_options_parse_fail
  \/ \E t \in {SOURCE_DEFAULT, SOURCE_SESSION}, d \in Documents :
       \E u \in UninitChoices(d) : merge_config_call(t, d, u)
  \/ \E m \in BOOLEAN, w \in BOOLEAN : terminal_options_ensure_window(m, w)

Spec == Init /\ [][Next]_vars

\* the prescanner and the finalizer on their own: a parse of an argument
\* list that holds no option
NextScan ==
  \/ Prescan
  \/ \E w \in BOOLEAN : digest_options_callback(w)
  \/ terminal_options_parse_fail

SpecScan == InitScan /\ [][NextScan]_vars

\* The merger's own specification.  terminal_options_merge_config reads the
\* window list, the per-window defaults and the error slot, and nothing else
\* of the state: the runs start after the prescan of a command line without
\* a switch, from the options that --window, or --role, --geometry,
\* --hide-menubar and --full-screen before any window, have left.
MergeStarts ==
  { options_new,
    add_new_window(options_new, NULLSTR, FALSE, FALSE),
    [options_new EXCEPT !.default_role = "A",
                        !.default_geometry = "80x24",
                        !.default_window_menubar_forced = TRUE,
                        !.default_window_menubar_state = FALSE,
                        !.default_fullscreen = TRUE] }

InitMerge ==
  /\ argv_in = <<"gnome-terminal">>
  /\ argv = argv_in
  /\ options \in MergeStarts
  /\ error = NOERROR
  /\ notice = NONOTICE
  /\ pc = "parse"
  /\ nevents = 0

\* the documents of the merger's specification: those of the main one, and
\* one that builds two windows around a group that is skipped
MergeDocuments ==
  Documents \cup { Document(TRUE, 1, 1, TRUE, <<WinPlain, WinNoTabsKey, WinFull>>) }

NextMerge ==
  \/ \E n \in LoadConfigNames, l \in BOOLEAN, d \in MergeDocuments :
       \E u \in UninitChoices(d) : option_load_config_cb(n, l, d, u)
  \/ \E w \in BOOLEAN : digest_options_callback(w)
  \/ terminal_options_parse_fail
  \/ \E d \in MergeDocuments :
       \E u \in UninitChoices(d) : merge_config_call(SOURCE_DEFAULT, d, u)

SpecMerge == InitMerge /\ [][NextMerge]_vars

\* The specification of the window defaults.  The runs start where
\* --role=A --geometry=80x24 --hide-menubar --maximize --full-screen, given
\* before any window, have left the options (each of the five callbacks
\* stores its value in the options when there is no window), and go on with
\* the events that make windows: --window, --tab, --active on no window,
\* the finalizer and terminal_options_ensure_window.
DefaultsGiven ==
  [options_new EXCEPT !.default_role = "A",
                      !.default_geometry = "80x24",
                      !.default_window_menubar_forced = TRUE,
                      !.default_window_menubar_state = FALSE,
                      !.default_maximize = TRUE,
                      !.default_fullscreen = TRUE]

InitDefaults ==
  /\ argv_in = <<"gnome-terminal">>
  /\ argv = argv_in
  /\ options = DefaultsGiven
  /\ error = NOERROR
  /\ notice = NONOTICE
  /\ pc = "parse"
  /\ nevents = 0

NextDefaults ==
  \/ \E v \in {NULLSTR} \cup ProfileNames, d \in ProfileDefaults, w \in BOOLEAN :
       option_window_callback(v, d, w)
  \/ \E v \in {NULLSTR} \cup ProfileNames, d \in ProfileDefaults, w \in BOOLEAN :
       option_tab_callback(v, d, w)
  \/ \E w \in BOOLEAN : option_active_callback(w)
  \/ \E w \in BOOLEAN : digest_options_callback(w)
  \/ terminal_options_parse_fail
  \/ \E m \in BOOLEAN, w \in BOOLEAN : terminal_options_ensure_window(m, w)

SpecDefaults == InitDefaults /\ [][NextDefaults]_vars

\* The specification of the fd-forward lists: the events that make the
\* tabs (--window, --tab, the finalizer) and --fd, which is the one event
\* that reads or writes a tab's fd_list and fd_array.
NextFd ==
  \/ Prescan
  \/ \E v \in {NULLSTR} \cup ProfileNames, d \in ProfileDefaults, w \in BOOLEAN :
       option_window_callback(v, d, w)
  \/ \E v \in {NULLSTR} \cup ProfileNames, d \in ProfileDefaults, w \in BOOLEAN :
       option_tab_callback(v, d, w)
  \/ \E v \in FdValues, w \in BOOLEAN, a \in BOOLEAN : option_pass_fd_cb(v, w, a)
  \/ \E w \in BOOLEAN : digest_options_callback(w)
  \/ terminal_options_parse_fail

SpecFd == Init /\ [][NextFd]_vars

(* ------------------------------ claims ------------------------------- *)

Windows == options.initial_windows

\* the places <<i, j>> of the tabs of the output list
TabPlaces ==
  { <<i, j>> : i \in 1 .. Len(Windows), j \in 1 .. 2 * (MaxEvents + 1) } \cap
  UNION { { <<i, j>> : j \in 1 .. Len(Windows[i].tabs) } : i \in 1 .. Len(Windows) }

TabAt(pl) == Windows[pl[1]].tabs[pl[2]]

\* C1: every window of the output list has at least one tab, and the
\* non-empty-tabs assertions of ensure_top_window and ensure_top_tab never
\* fail.
C1_EveryWindowHasATab ==
  /\ \A i \in 1 .. Len(Windows) : Windows[i].tabs # << >>
  /\ pc # "abort"

\* C2: at most one tab across all windows has wait = TRUE.
C2_AtMostOneWait ==
  Cardinality({ pl \in TabPlaces : TabAt(pl).wait }) <= 1

\* the fd-forward list of every tab: pairwise distinct, none of 0, 1, 2
FdListsSound ==
  \A pl \in TabPlaces :
    LET a == TabAt(pl).fd_array
    IN  /\ \A k \in 1 .. Len(a) : a[k].fd \notin {0, 1, 2}
        /\ \A k, l \in 1 .. Len(a) : a[k].fd = a[l].fd => k = l

\* a --fd event with value v
PassFdEvent(v) == \E w \in BOOLEAN, a \in BOOLEAN : option_pass_fd_cb(v, w, a)

FdStep ==
  \A v \in FdValues :
    /\ ( /\ pc = "parse"
         /\ v.parses /\ v.high = 0 /\ v.v \in {0, 1, 2}
         /\ PassFdEvent(v) )
       => pc' = "cb_failed"
    /\ ( /\ pc = "parse"
         /\ v.parses /\ v.high = 0
         /\ Windows # << >> /\ ~top_window_assert_fails(options)
         /\ \E k \in 1 .. Len(top_tab(options).fd_array) :
              top_tab(options).fd_array[k].fd = v.v
         /\ PassFdEvent(v) )
       => pc' = "cb_failed"

\* C3: in every tab the target fds are pairwise distinct and none is 0, 1
\* or 2; --fd 0, 1 or 2 always fails; --fd N fails when the current tab
\* already holds N.
C3_FdForward == []FdListsSound /\ [][FdStep]_vars

\* C3 witness: a second --fd 3 was refused on a tab that holds 3
C3_Witness ==
  /\ pc = "cb_failed" /\ error = "fd-twice"
  /\ Windows # << >> /\ Last(Windows).tabs # << >>
  /\ top_tab(options).fd_array = << [index |-> 0, fd |-> 3] >>

\* C4: a --role event on a window that already has a role fails with the
\* two-roles error and leaves that role as it was.
C4_SecondRoleFails ==
  [][ \A v \in Roles :
        ( /\ option_role_callback(v)
          /\ Windows # << >>
          /\ Last(Windows).role # NULLSTR )
        => ( /\ pc' = "cb_failed"
             /\ error' = "two-roles"
             /\ options'.initial_windows = Windows ) ]_vars

\* the current window has a forced menubar state
MenubarForced == Windows # << >> /\ Last(Windows).force_menubar_state

\* C5 as stated: with a forced menubar state on the current window, an
\* event asking for the conflicting state is ignored with the warning.
C5_ConflictIgnored ==
  [][ \A st \in BOOLEAN :
        ( /\ option_menubar_callback(st)
          /\ MenubarForced
          /\ Last(Windows).menubar_state # st )
        => ( /\ options' = options
             /\ notice' = "given-twice"
             /\ pc' = "parse" ) ]_vars

\* C5 amended: with a forced menubar state on the current window, an event
\* asking for the SAME state is ignored with the duplicate-option warning
\* (state unchanged, no failure); an event asking for the conflicting state
\* replaces the window's state, without warning and without failing.
C5_SameStateIgnored ==
  [][ \A st \in BOOLEAN :
        ( option_menubar_callback(st) /\ MenubarForced )
        => IF Last(Windows).menubar_state = st
           THEN /\ options' = options
                /\ notice' = "given-twice"
                /\ pc' = "parse"
           ELSE /\ options' = set_last_window(options,
                                [Last(Windows) EXCEPT !.menubar_state = st])
                /\ notice' = NONOTICE
                /\ pc' = "parse" ]_vars

\* C5 witness: an event was ignored with the warning
C5_Witness ==
  /\ notice = "given-twice" /\ pc = "parse"
  /\ MenubarForced

\* the finalizer runs and returns TRUE
DigestSucceeds ==
  /\ \E w \in BOOLEAN : digest_options_callback(w)
  /\ pc' = "returned"

\* the tabs of a window list, window by window
RECURSIVE AllTabs(_)
AllTabs(ws) == IF ws = << >> THEN << >> ELSE Head(ws).tabs \o AllTabs(Tail(ws))

\* C6: when the finalizer runs with a buffered trailing command, the first
\* tab of the first window receives it, and no other tab does.
C6_CommandOnFirstTab ==
  [][ ( DigestSucceeds /\ options.execute /\ options.exec_argv # NULLARGV )
      => LET ws == options'.initial_windows
         IN  /\ ws[1].tabs[1].exec_argv = options.exec_argv
             /\ Windows # << >> =>
                  Tail(AllTabs(ws)) = Tail(AllTabs(Windows)) ]_vars

\* the prescanner captured a trailing command from argv_in
Captured == prescan(argv_in, Len(argv_in), 1).exec_argv # NULLARGV

\* an implicit first window with one tab, and nothing else
OneImplicitWindow(ws) ==
  /\ Len(ws) = 1
  /\ ws[1].implicit_first_window
  /\ Len(ws[1].tabs) = 1

Switches == {"-x", "--execute", "--"}

\* the first place after argv[0] that holds a switch (0 when there is none),
\* as an index of the sequence: argv[i] of the code is place i + 1
FirstSwitch(av) ==
  LET places == { k \in 2 .. Len(av) : av[k] \in Switches }
  IN  IF places = { } THEN 0
      ELSE CHOOSE k \in places : \A l \in places : k <= l

\* C8: when -x or --execute is the last token, the prescanner captures no
\* command and sets execute; the finalizer then fails the parse, which
\* returns no window and no tab.
C8_ExecuteLastFails ==
  ( /\ FirstSwitch(argv_in) = Len(argv_in)
    /\ Last(argv_in) \in {"-x", "--execute"} )
  => /\ ( pc = "parse" /\ nevents = 0 ) =>
          options.execute /\ options.exec_argv = NULLARGV
     /\ pc \notin {"returned", "ensured"}
     /\ pc = "null" => Windows = << >>

\* C9 as stated: when the first switch is -- at place m, the parser gets the
\* tokens before m, the trailing command is the tokens after m, and execute
\* is FALSE; also when -- is the last token.
C9_DashDashCutsList ==
  LET m == FirstSwitch(argv_in)
  IN  ( pc = "parse" /\ m # 0 /\ argv_in[m] = "--" )
      => /\ argv = SubSeq(argv_in, 1, m - 1)
         /\ options.exec_argv = SubSeq(argv_in, m + 1, Len(argv_in))
         /\ ~options.execute

\* C9 amended: when the first switch is -- at place m and a token follows
\* it, the parser gets the tokens before m, the trailing command is the
\* tokens after m, verbatim and in order, and execute is FALSE; when -- is
\* the last token the parser gets the whole list, -- included, no trailing
\* command is recorded and execute is FALSE.
C9_DashDashNotLastCutsList ==
  LET m == FirstSwitch(argv_in)
  IN  ( pc = "parse" /\ m # 0 /\ argv_in[m] = "--" )
      => /\ ~options.execute
         /\ options.exec_argv = SubSeq(argv_in, m + 1, Len(argv_in))
         /\ argv = IF m < Len(argv_in) THEN SubSeq(argv_in, 1, m - 1)
                   ELSE argv_in

\* C9 witness: a list cut at a -- that a token precedes and a token follows
C9_Witness ==
  /\ pc = "parse"
  /\ argv_in = <<"gnome-terminal", "f", "--", "b">>
  /\ argv = <<"gnome-terminal", "f">>
  /\ options.exec_argv = <<"b">>

\* C10: the prescanner acts on the first switch after argv[0] only: execute
\* tells its kind, every later token, switches too, is kept in the trailing
\* command; without a switch the list is unchanged and nothing is recorded.
C10_FirstSwitchWins ==
  LET m == FirstSwitch(argv_in)
  IN  pc = "parse"
      => IF m = 0
         THEN /\ argv = argv_in
              /\ options.exec_argv = NULLARGV
              /\ ~options.execute
         ELSE /\ options.execute = (argv_in[m] \in {"-x", "--execute"})
              /\ options.exec_argv = SubSeq(argv_in, m + 1, Len(argv_in))

\* C10 witness: argv[0] looks like a switch and is passed over, and the
\* trailing command holds a later switch
C10_Witness ==
  /\ pc = "parse"
  /\ argv_in = <<"--", "--execute", "f", "--">>
  /\ options.execute
  /\ options.exec_argv = <<"f", "--">>

\* the per-window members of GlobalDefaults
WindowDefaults(o) ==
  << o.default_role, o.default_geometry, o.default_window_menubar_forced,
     o.default_window_menubar_state, o.default_fullscreen, o.default_maximize >>

\* One per-window flag: cb is its callback, InDefaults(o) says that the
\* options hold the flag's value as a default, OnWindow(iw) that the window
\* holds it.
\*  - with no window, the callback that returns TRUE creates none and
\*    records the value as a default;
\*  - with a window, it leaves the value on the current window, creates no
\*    window and leaves the defaults alone;
\*  - the first window created while the default is recorded carries it.
WindowFlagRule(cb, InDefaults(_), OnWindow(_)) ==
  /\ ( pc = "parse" /\ Windows = << >> /\ cb /\ pc' = "parse" )
     => /\ options'.initial_windows = << >>
        /\ InDefaults(options')
  /\ ( pc = "parse" /\ Windows # << >> /\ cb /\ pc' = "parse" )
     => /\ Len(options'.initial_windows) = Len(Windows)
        /\ OnWindow(Last(options'.initial_windows))
        /\ WindowDefaults(options') = WindowDefaults(options)
  /\ ( Windows = << >> /\ options'.initial_windows # << >> /\ InDefaults(options) )
     => OnWindow(options'.initial_windows[1])

\* C11: with no window, each per-window flag (role, geometry, show/hide
\* menubar, maximize, fullscreen) creates no window and records its value
\* in GlobalDefaults, and the next window created carries that value; with
\* a window, the flag changes the current window and leaves GlobalDefaults
\* unchanged.
C11_WindowFlagsTarget ==
  [][ /\ \A v \in Roles :
           LET InD(o) == o.default_role = v
               OnW(iw) == iw.role = v
           IN  WindowFlagRule(option_role_callback(v), InD, OnW)
      /\ \A v \in Geometries :
           LET InD(o) == o.default_geometry = v
               OnW(iw) == iw.geometry = v
           IN  WindowFlagRule(option_geometry_callback(v), InD, OnW)
      /\ \A st \in BOOLEAN :
           LET InD(o) == /\ o.default_window_menubar_forced
                         /\ o.default_window_menubar_state = st
               OnW(iw) == iw.force_menubar_state /\ iw.menubar_state = st
           IN  WindowFlagRule(option_menubar_callback(st), InD, OnW)
      /\ LET InD(o) == o.default_maximize
             OnW(iw) == iw.start_maximized
         IN  WindowFlagRule(option_maximize_callback, InD, OnW)
      /\ LET InD(o) == o.default_fullscreen
             OnW(iw) == iw.start_fullscreen
         IN  WindowFlagRule(option_fullscreen_callback, InD, OnW) ]_vars

\* a per-tab flag's callback runs
TabFlagEvent ==
  \/ \E v \in ProfileNames, d \in ProfileDefaults : option_profile_cb(v, d)
  \/ \E v \in Titles : option_title_callback(v)
  \/ \E v \in Directories : option_working_directory_callback(v)
  \/ \E v \in Commands : option_command_callback(v)
  \/ \E w \in BOOLEAN : option_wait_cb(w)
  \/ \E v \in FdValues, w \in BOOLEAN, a \in BOOLEAN : option_pass_fd_cb(v, w, a)
  \/ \E v \in ZoomValues : option_zoom_callback(v)
  \/ \E w \in BOOLEAN : option_active_callback(w)

ImplicitTab(o) == o.initial_windows[1].tabs[1]

C13_DefaultRoleMoved ==
  [][ ( /\ options.default_role # NULLSTR
        /\ Windows = << >>
        /\ options'.initial_windows # << >> )
      => LET ws == options'.initial_windows
         IN  /\ ws[1].role = options.default_role
             /\ \A i \in 2 .. Len(ws) : ws[i].role # options.default_role
             /\ options'.default_role = NULLSTR ]_vars

\* C14 as stated: when the parse made no window, the tree after
\* terminal_options_ensure_window is one window, marked
\* implicit_first_window, with one tab.
C14_OneImplicitWindow ==
  [][ \A m \in BOOLEAN, w \in BOOLEAN :
        ( pc = "returned" /\ Windows = << >>
          /\ terminal_options_ensure_window(m, w) )
        => OneImplicitWindow(options'.initial_windows) ]_vars

\* C14 amended: when the parse made no window, the tree after
\* terminal_options_ensure_window is one window with one tab, and the window
\* is marked implicit_first_window exactly when the new-terminal-mode
\* setting reads "tab".  When the finalizer made the window, for a command
\* after -x, the tree is one window marked implicit_first_window with one
\* tab, and terminal_options_ensure_window leaves a tree that has a window
\* as it is.
C14_OneWindowImplicitByMode ==
  [][ /\ \A m \in BOOLEAN, w \in BOOLEAN :
           ( pc = "returned" /\ terminal_options_ensure_window(m, w)
             /\ pc' = "ensured" )
           => IF Windows = << >>
              THEN LET ws == options'.initial_windows
                   IN  /\ Len(ws) = 1
                       /\ Len(ws[1].tabs) = 1
                       /\ ws[1].implicit_first_window = m
              ELSE options' = options
      /\ ( pc = "parse" /\ Windows = << >> /\ DigestSucceeds
           /\ options'.initial_windows # << >> )
         => OneImplicitWindow(options'.initial_windows) ]_vars

\* C14 witness: no option at all, the setting reads "window": one window,
\* one tab, not marked
C14_Witness ==
  /\ pc = "ensured" /\ nevents = 0
  /\ argv_in = <<"gnome-terminal">>
  /\ Len(Windows) = 1
  /\ Len(Windows[1].tabs) = 1
  /\ ~Windows[1].implicit_first_window

\* the stream -- f b, and the stream --command "f b" with its one event
DashDashStream == <<"gnome-terminal", "--", "f", "b">>
CommandStream == <<"gnome-terminal">>
CommandText == <<"f", " ", "b">>

\* the options with the command [f, b] buffered and nothing else set
Buffered == [options_new EXCEPT !.exec_argv = <<"f", "b">>]

\* C15 as stated: at the end of the stream -- f b the first tab of the first
\* window has the exec argv [f, b].
C15_FirstTabHasCommand ==
  ( pc = "ensured" /\ nevents = 0 /\ argv_in = DashDashStream )
  => Windows[1].tabs[1].exec_argv = <<"f", "b">>

\* what the two streams have in common before the finalizer runs
C15_SameBeforeFinalizer ==
  ( pc = "parse" /\ nevents = 0 /\ argv_in = DashDashStream )
  => options = Buffered

C15_SameSteps ==
  /\ ( pc = "parse" /\ nevents = 0 /\ argv_in = CommandStream
       /\ option_command_callback(CommandText) )
     => options' = Buffered /\ pc' = "parse"
  /\ ( pc = "parse" /\ options = Buffered
       /\ \E w \in BOOLEAN : digest_options_callback(w) )
     => options' = Buffered /\ pc' = "returned"
  /\ \A m \in BOOLEAN, w \in BOOLEAN :
       ( pc = "returned" /\ options = Buffered
         /\ terminal_options_ensure_window(m, w) )
       => /\ pc' = "ensured"
          /\ options' = ensure_top_window(Buffered, m, w)
          /\ options'.exec_argv = <<"f", "b">>
          /\ Len(options'.initial_windows) = 1
          /\ Len(options'.initial_windows[1].tabs) = 1
          /\ ImplicitTab(options').exec_argv = NULLARGV

\* C15 amended: with no other flags, the stream -- f b and the stream
\* --command "f b" reach the same options before the finalizer runs: no
\* window, execute FALSE, and the command [f, b] in the options' command
\* buffer.  From there the finalizer changes nothing, and
\* terminal_options_ensure_window makes one window with one tab whose own
\* exec argv is empty; the command [f, b] stays in the options' buffer.
C15_SameBufferedCommand == []C15_SameBeforeFinalizer /\ [][C15_SameSteps]_vars

\* C15 witness: the end of the stream --command "f b"
C15_Witness ==
  /\ pc = "ensured" /\ nevents = 1
  /\ argv_in = CommandStream
  /\ options.exec_argv = <<"f", "b">>
  /\ Len(Windows) = 1
  /\ ImplicitTab(options).exec_argv = NULLARGV

\* the window groups of the document that have a tabs list
RECURSIVE WithTabsList(_)
WithTabsList(groups) ==
  IF groups = << >> THEN << >>
  ELSE IF Head(groups).has_tabs
  THEN << Head(groups) >> \o WithTabsList(Tail(groups))
  ELSE WithTabsList(Tail(groups))

\* The values of wait a merge step of doc found in its new tabs can be read
\* off the tabs it appended: the j-th tab of the i-th window group is the
\* j-th tab of the window behind the old list that the i-th group made.
\* A step is a merge of doc with some choice of those values exactly when
\* it is one with this choice.
UninitSeen(doc) ==
  LET ws == options'.initial_windows
      n  == Len(Windows)
  IN  [ i \in 1 .. Len(doc.windows) |->
        [ j \in 1 .. MaxTabs(doc.windows, 1) |->
          LET k == n + Len(WithTabsList(SubSeq(doc.windows, 1, i)))
          IN  /\ doc.windows[i].has_tabs
              /\ j <= Len(doc.windows[i].tabs)
              /\ k <= Len(ws)
              /\ j <= Len(ws[k].tabs)
              /\ ws[k].tabs[j].wait ] ]

\* a merge of the document doc: through --load-config or
\* --sm-client-state-file with a file that could be read, or called by the
\* program after the parse
MergeInParse(doc) ==
  /\ pc = "parse"
  /\ \E n \in LoadConfigNames :
       option_load_config_cb(n, TRUE, doc, UninitSeen(doc))

MergeAfterParse(doc) ==
  /\ pc = "returned"
  /\ \E t \in {SOURCE_DEFAULT, SOURCE_SESSION} :
       merge_config_call(t, doc, UninitSeen(doc))

MergeStep(doc) == MergeInParse(doc) \/ MergeAfterParse(doc)

\* the version gate refuses the document
BadVersions(doc) ==
  \/ doc.version <= 0
  \/ doc.compat_version <= 0
  \/ doc.compat_version > TERMINAL_CONFIG_COMPAT_VERSION

\* the merge failed with the error kind (the slot was unset before) and
\* touched nothing
GateRefuses(doc, kind) ==
  /\ options' = options
  /\ error = NOERROR => error' = kind
  /\ error' # NOERROR
  /\ MergeInParse(doc) => pc' = "cb_failed"

\* C16: a merge fails with invalid-config when the top group is missing and
\* with incompatible-config when version <= 0 (a missing key reads 0),
\* compat_version <= 0 or compat_version above the ceiling, and adds no
\* window; a document with version 1 and compat_version 1 passes the gate.
C16_VersionGate ==
  [][ \A doc \in MergeDocuments :
        /\ ( ~doc.has_group /\ MergeStep(doc) )
           => GateRefuses(doc, "invalid-config")
        /\ ( doc.has_group /\ BadVersions(doc) /\ MergeStep(doc) )
           => GateRefuses(doc, "incompatible-config")
        \* no merge of a document with version 1 and compat_version 1 sets
        \* one of the gate's errors
        /\ ( /\ doc.has_group /\ doc.version = 1 /\ doc.compat_version = 1
             /\ error = NOERROR
             /\ error' \in {"invalid-config", "incompatible-config"} )
           => ~MergeStep(doc) ]_vars

\* C16 witness: a document above the ceiling was refused after a window
\* had been made, and the window list is as it was
C16_Witness ==
  /\ pc = "cb_failed" /\ error = "incompatible-config"
  /\ nevents = 2
  /\ Len(Windows) = 1

\* the document passes the version gate and has a windows list
PassesGate(doc) == doc.has_group /\ ~BadVersions(doc) /\ doc.has_windows

\* every command of the document can be split
Splittable(doc) ==
  \A i \in 1 .. Len(doc.windows) : \A j \in 1 .. Len(doc.windows[i].tabs) :
    LET tg == doc.windows[i].tabs[j]
    IN  tg.has_command => g_shell_parse_argv(tg.command).ok

\* C17: a window group that is named in the windows list and lacks the
\* tabs-list key contributes no window, the merge succeeds, and the error
\* slot, unset before, is unset when the merge returns.
C17_SkippedGroupNoError ==
  [][ \A doc \in MergeDocuments :
        ( /\ PassesGate(doc) /\ Splittable(doc)
          /\ \E i \in 1 .. Len(doc.windows) : ~doc.windows[i].has_tabs
          /\ error = NOERROR
          /\ MergeStep(doc) )
        => /\ Len(options'.initial_windows) =
                Len(Windows) + Len(WithTabsList(doc.windows))
           /\ MergeInParse(doc) => pc' = "parse"
           /\ error' = NOERROR ]_vars

\* some command of a window group that has a tabs list cannot be split
HasBrokenCommand(doc) ==
  LET groups == WithTabsList(doc.windows)
  IN  \E i \in 1 .. Len(groups) : \E j \in 1 .. Len(groups[i].tabs) :
        LET tg == groups[i].tabs[j]
        IN  tg.has_command /\ ~g_shell_parse_argv(tg.command).ok

\* C18: when splitting a tab's command fails during a merge, the merge
\* fails and the window list is what it was before the call; the windows
\* built from earlier window groups are discarded too.
C18_FailedMergeKeepsList ==
  [][ \A doc \in MergeDocuments :
        ( PassesGate(doc) /\ HasBrokenCommand(doc) /\ MergeStep(doc) )
        => /\ options'.initial_windows = Windows
           /\ error' # NOERROR
           /\ error = NOERROR => error' = "bad-command"
           /\ MergeInParse(doc) => pc' = "cb_failed" ]_vars

\* C18 witness: a window, then a merge that built a window from a first
\* group and failed on the command of the second: one window still
C18_Witness ==
  /\ pc = "cb_failed" /\ error = "bad-command"
  /\ nevents = 1
  /\ Len(Windows) = 1
  /\ Windows[1].source_tag = 0

\* the tab the merger builds from a tab group correctly: what the tab group
\* says, but for wait, which nothing sets
TabFromGroup(it, tg, active_terminal) ==
  /\ it.profile = tg.profile
  /\ it.title = tg.title
  /\ it.working_dir = tg.working_dir
  /\ it.active = (tg.name = active_terminal)
  /\ it.exec_argv = IF tg.has_command THEN g_shell_parse_argv(tg.command).argv
                    ELSE NULLARGV

\* C19: after a successful merge the window list is the list from before
\* the call, unchanged, followed by one window for each window group that
\* has a tabs list, in the order of the windows list; the tabs of each are
\* those of its tab groups, in the order of its tabs list.
C19_MergeAppendsInOrder ==
  [][ \A doc \in MergeDocuments :
        ( PassesGate(doc) /\ ~HasBrokenCommand(doc) /\ MergeStep(doc) )
        => LET ws     == options'.initial_windows
               n      == Len(Windows)
               groups == WithTabsList(doc.windows)
           IN  /\ Len(ws) = n + Len(groups)
               /\ SubSeq(ws, 1, n) = Windows
               /\ \A k \in 1 .. Len(groups) :
                    /\ Len(ws[n + k].tabs) = Len(groups[k].tabs)
                    /\ \A j \in 1 .. Len(groups[k].tabs) :
                         TabFromGroup(ws[n + k].tabs[j], groups[k].tabs[j],
                                      groups[k].active) ]_vars

\* C19 witness: a window made by --window, then the windows of two window
\* groups, of one tab and of two, behind it
C19_Witness ==
  /\ pc = "parse" /\ nevents = 1
  /\ Len(Windows) = 3
  /\ Windows[1].source_tag = 0
  /\ Len(Windows[2].tabs) = 1
  /\ Len(Windows[3].tabs) = 2
  /\ Windows[3].tabs[2].exec_argv = <<"f">>

\* C20: a window built by the merger keeps, for each per-window property
\* whose key the document lacks, what GlobalDefaults gave it: the default
\* role (the first window built, which takes it), the default geometry, and
\* fullscreen and maximized whenever the default is TRUE.
C20_MergedWindowKeepsDefaults ==
  [][ \A doc \in MergeDocuments :
        ( PassesGate(doc) /\ ~HasBrokenCommand(doc) /\ MergeStep(doc) )
        => LET ws     == options'.initial_windows
               n      == Len(Windows)
               groups == WithTabsList(doc.windows)
           IN  \A k \in 1 .. Len(groups) :
                 /\ ( k = 1 /\ groups[k].role = NULLSTR
                      /\ options.default_role # NULLSTR )
                    => ws[n + k].role = options.default_role
                 /\ groups[k].geometry = NULLSTR
                    => ws[n + k].geometry = options.default_geometry
                 /\ options.default_fullscreen => ws[n + k].start_fullscreen
                 /\ options.default_maximize => ws[n + k].start_maximized ]_vars

\* the new tab of a window or tab event, or the target of --profile, holds
\* the profile
ProfileLanded(profile) ==
  IF options'.initial_windows = << >>
  THEN options'.default_profile = profile
  ELSE top_tab(options').profile = profile

\* an event whose name the profiles list does not know: with a default
\* profile it succeeds and uses the default, without one it fails
FallbackOutcome(profiles_default) ==
  IF profiles_default = NULLSTR
  THEN pc' = "cb_failed" /\ options' = options /\ error' # NOERROR
  ELSE pc' = "parse" /\ ProfileLanded(profiles_default)

\* C21: for --profile, --window-with-profile and --tab-with-profile, a name
\* the resolver does not find is resolved again with no name, and the event
\* succeeds with the default profile; it fails only when the second
\* resolution fails too.
C21_ProfileFallback ==
  [][ \A v \in ProfileNames, d \in ProfileDefaults :
        ( pc = "parse" /\ v \notin DOMAIN ProfileUuid )
        => /\ ( option_profile_cb(v, d) /\ pc' # "abort" )
              => FallbackOutcome(d)
           /\ ( \E w \in BOOLEAN : option_window_callback(v, d, w) )
              => FallbackOutcome(d)
           /\ ( \E w \in BOOLEAN : option_tab_callback(v, d, w) )
              => FallbackOutcome(d) ]_vars

\* C22: the first error ends the parse: the callback that sets the error
\* slot is the last one run, the windows and tabs built so far are
\* discarded and the parse returns no tree; a parse that returns a tree
\* returns it with the error slot unset.
C22_FirstErrorEndsParse ==
  [][ /\ ( pc = "parse" /\ error = NOERROR /\ error' # NOERROR )
         => pc' = "cb_failed"
      /\ pc = "cb_failed"
         => /\ pc' = "null"
            /\ options'.initial_windows = << >>
            /\ error' = error /\ error # NOERROR
      /\ pc # "null"
      /\ ( pc = "parse" /\ pc' = "returned" ) => error' = NOERROR ]_vars

\* a zoom value of the closed range of the scale
ZoomInRange(zoom) ==
  /\ zoom # ZOOM_NAN
  /\ TERMINAL_SCALE_MINIMUM <= zoom
  /\ zoom <= TERMINAL_SCALE_MAXIMUM

\* the zoom values the options hold: that of GlobalDefaults and each tab's
AllZooms(o) ==
  << o.zoom >> \o [ k \in 1 .. Len(AllTabs(o.initial_windows)) |->
                      AllTabs(o.initial_windows)[k].zoom ]

\* every zoom value held lies in the range
ZoomsInRange ==
  \A k \in 1 .. Len(AllZooms(options)) : ZoomInRange(AllZooms(options)[k])

\* the zoom value a --zoom event that returned TRUE has stored
ZoomStored ==
  IF Windows = << >> THEN options'.zoom ELSE top_tab(options').zoom

ZoomStep ==
  \A v \in ZoomValues :
    ( pc = "parse" /\ option_zoom_callback(v) /\ pc' # "abort" )
    => IF ~v.parses \/ v.v = ZOOM_NAN
       THEN pc' = "cb_failed" /\ AllZooms(options') = AllZooms(options)
       ELSE /\ pc' = "parse"
            /\ v.v < TERMINAL_SCALE_MINIMUM
               => ZoomStored = TERMINAL_SCALE_MINIMUM
            /\ v.v > TERMINAL_SCALE_MAXIMUM
               => ZoomStored = TERMINAL_SCALE_MAXIMUM
            /\ ( /\ v.v > TERMINAL_SCALE_MINIMUM + ZOOM_EPSILON
                 /\ v.v < TERMINAL_SCALE_MAXIMUM - ZOOM_EPSILON )
               => ZoomStored = v.v

\* C23: every zoom value held by a tab or by GlobalDefaults lies in the
\* closed range of the scale: --zoom below the minimum stores the minimum,
\* above the maximum the maximum, inside the range (beyond the margin) the
\* value itself, and a value that is no number fails and changes no zoom.
C23_ZoomInRange == []ZoomsInRange /\ [][ZoomStep]_vars

\* the places of the windows that carry the mark
Marked(ws) == { i \in 1 .. Len(ws) : ws[i].implicit_first_window }

\* the mark is on the first window or on none
MarkOnFirstOnly ==
  /\ Marked(Windows) \subseteq {1}
  /\ Cardinality(Marked(Windows)) <= 1

\* a --window or --window-with-profile event
WindowEvent ==
  \E v \in {NULLSTR} \cup ProfileNames, d \in ProfileDefaults, w \in BOOLEAN :
    option_window_callback(v, d, w)

\* the windows a step has put behind the ones that were there
NewWindows == SubSeq(options'.initial_windows, Len(Windows) + 1,
                     Len(options'.initial_windows))

MarkStep ==
  \* the window --window makes is not marked
  /\ ( pc = "parse" /\ WindowEvent /\ pc' = "parse" )
     => /\ Len(NewWindows) = 1
        /\ Marked(NewWindows) = { }
  \* a step that puts a marked window on the list is no merge
  /\ ( /\ pc \in {"parse", "returned"}
       /\ Len(options'.initial_windows) > Len(Windows)
       /\ Marked(NewWindows) # { } )
     => \A doc \in Documents : ~MergeStep(doc)
  \* the mark of a window that stays on the list stays as it is
  /\ \A i \in 1 .. Len(Windows) :
       i <= Len(options'.initial_windows)
       => options'.initial_windows[i].implicit_first_window =
            Windows[i].implicit_first_window

\* C24: a window marked implicit_first_window is the first of the output
\* list, and neither --window nor the merger made it; at most one window
\* carries the mark.
C24_ImplicitMark == []MarkOnFirstOnly /\ [][MarkStep]_vars

\* C24 witness: --tab made the marked first window, and a merge put an
\* unmarked window behind it
C24_Witness ==
  /\ pc = "parse" /\ nevents = 2
  /\ Len(Windows) = 2
  /\ Marked(Windows) = {1}
  /\ Windows[2].source_tag = SOURCE_SESSION

\* the step has put windows on the list, and one of them has not the tag
NewWindowNotTagged(source_tag) ==
  /\ Len(options'.initial_windows) > Len(Windows)
  /\ \E k \in 1 .. Len(NewWindows) : NewWindows[k].source_tag # source_tag

SourceTagStep ==
  \* no event changes the tag of a window that stays on the list
  /\ \A i \in 1 .. Len(Windows) :
       i <= Len(options'.initial_windows)
       => options'.initial_windows[i].source_tag = Windows[i].source_tag
  \* only a merge puts a window with a tag other than 0 on the list
  /\ ( pc \in {"parse", "returned"} /\ NewWindowNotTagged(0) )
     => \E doc \in Documents : MergeStep(doc)
  \* a merge tags its windows with the tag it was called with
  /\ \A t \in {SOURCE_DEFAULT, SOURCE_SESSION} :
       /\ ( pc = "returned" /\ NewWindowNotTagged(t) )
          => \A doc \in Documents : ~merge_config_call(t, doc, UninitSeen(doc))
       /\ ( pc = "parse" /\ NewWindowNotTagged(t) )
          => \A doc \in Documents, n \in LoadConfigNames :
               load_config_source_tag(n) = t
               => ~option_load_config_cb(n, TRUE, doc, UninitSeen(doc))

\* C25: a window made by a flag of the command line, by the finalizer or by
\* terminal_options_ensure_window has source_tag 0, a window made by a merge
\* has the source tag the merge was called with, and no later event changes
\* a window's source_tag.
C25_SourceTag == [][SourceTagStep]_vars

\* C25 witness: a window of the command line, and behind it the window of a
\* merge that was called with SOURCE_SESSION after the parse
C25_Witness ==
  /\ pc = "returned" /\ nevents = 2
  /\ Len(Windows) = 2
  /\ Windows[1].source_tag = 0
  /\ Windows[2].source_tag = SOURCE_SESSION

\* the members of the options that make up GlobalDefaults
GlobalDefaults(o) ==
  << o.default_profile, o.default_title, o.default_working_dir,
     o.default_role, o.default_geometry,
     o.default_window_menubar_forced, o.default_window_menubar_state,
     o.default_fullscreen, o.default_maximize, o.zoom, o.zoom_set >>

\* C26: once the output list holds a window, no option event (and no merge
\* or terminal_options_ensure_window after the parse) changes a member of
\* GlobalDefaults: default profile, title, working directory, role,
\* geometry, menubar state, fullscreen, maximize, zoom.
C26_DefaultsFrozen ==
  [][ ( pc \in {"parse", "returned"} /\ Windows # << >> )
      => GlobalDefaults(options') = GlobalDefaults(options) ]_vars

\* C26 witness: --window, then --geometry: the window has the geometry and
\* the default geometry is as it was
C26_Witness ==
  /\ pc = "parse" /\ nevents = 2
  /\ Len(Windows) = 1
  /\ Windows[1].geometry = "80x24"
  /\ options.default_geometry = NULLSTR

\* the provenance the claim gives to each name of the option
NamedSourceTag(option_name) ==
  IF option_name = "--load-config" THEN SOURCE_DEFAULT ELSE SOURCE_SESSION

\* C27: the option event named --load-config (the name as the option
\* framework passes it, with its dashes) merges its document with
\* SOURCE_DEFAULT and the session state-file option with SOURCE_SESSION:
\* the windows a merge through the option makes carry that tag.
C27_LoadConfigSourceTag ==
  [][ \A doc \in MergeDocuments, n \in LoadConfigNames :
        ( /\ pc = "parse"
          /\ Len(options'.initial_windows) > Len(Windows)
          /\ option_load_config_cb(n, TRUE, doc, UninitSeen(doc)) )
        => \A k \in 1 .. Len(NewWindows) :
             NewWindows[k].source_tag = NamedSourceTag(n) ]_vars

\* a --tab or --tab-with-profile event
TabEvent ==
  \E v \in {NULLSTR} \cup ProfileNames, d \in ProfileDefaults, w \in BOOLEAN :
    option_tab_callback(v, d, w)

CreationStep ==
  LET ws == options'.initial_windows
      n  == Len(Windows)
  IN  \* --window: one more window, the last, with one tab
      /\ ( pc = "parse" /\ WindowEvent /\ pc' = "parse" )
         => /\ Len(ws) = n + 1
            /\ SubSeq(ws, 1, n) = Windows
            /\ Len(ws[n + 1].tabs) = 1
      \* --tab with a window: one more tab, the last of the last window
      /\ ( pc = "parse" /\ Windows # << >> /\ TabEvent /\ pc' = "parse" )
         => /\ Len(ws) = n
            /\ SubSeq(ws, 1, n - 1) = SubSeq(Windows, 1, n - 1)
            /\ [ws[n] EXCEPT !.tabs = Windows[n].tabs] = Windows[n]
            /\ Len(ws[n].tabs) = Len(Windows[n].tabs) + 1
            /\ SubSeq(ws[n].tabs, 1, Len(Windows[n].tabs)) = Windows[n].tabs
      \* --tab without a window: one window, marked, with one tab
      /\ ( pc = "parse" /\ Windows = << >> /\ TabEvent /\ pc' = "parse" )
         => OneImplicitWindow(ws)

\* C28: a window-creation event that succeeds puts exactly one window, with
\* exactly one tab, at the end of the output list; a tab-creation event that
\* succeeds adds, when there is a window, exactly one tab at the end of the
\* last window and no window, and makes, when there is none, exactly one
\* window, marked implicit, with exactly one tab.
C28_CreationEvents == [][CreationStep]_vars

\* C28 witness: --tab made the marked window, a second --tab put a tab
\* behind the first
C28_Witness ==
  /\ pc = "parse" /\ nevents = 2
  /\ Len(Windows) = 1
  /\ Windows[1].implicit_first_window
  /\ Len(Windows[1].tabs) = 2
  /\ ~options.any_wait
  /\ \A j \in 1 .. 2 : ~Windows[1].tabs[j].active /\ Windows[1].tabs[j].fd_array = << >>

FrameStep ==
  LET ws == options'.initial_windows
      n  == Len(Windows)
  IN  pc = "parse"
      => \* no window leaves the list, and the windows before the last one
         \* are as they were
         /\ Len(ws) >= n
         /\ \A i \in 1 .. n - 1 : ws[i] = Windows[i]
         \* no tab leaves the last window, and its tabs before the last one
         \* are as they were
         /\ n > 0
            => LET m == Len(Windows[n].tabs)
               IN  /\ Len(ws[n].tabs) >= m
                   /\ \A j \in 1 .. m - 1 : ws[n].tabs[j] = Windows[n].tabs[j]

CarriesDefaults(iw) ==
  /\ iw.role = DefaultsGiven.default_role
  /\ iw.geometry = DefaultsGiven.default_geometry
  /\ iw.force_menubar_state
  /\ iw.menubar_state = DefaultsGiven.default_window_menubar_state
  /\ iw.start_maximized
  /\ iw.start_fullscreen

\* C30: a per-window option given before the first --window or --tab sets
\* the default for all windows: every window made afterwards by --window,
\* --tab or an implicit creation, not only the first, carries the role, the
\* geometry, the menubar state, maximize and fullscreen that were given.
C30_DefaultForAllWindows ==
  \A i \in 1 .. Len(Windows) : CarriesDefaults(Windows[i])

\* in every tab the k-th entry of the fd-forward list, counted from 0, has
\* the local index k, and the descriptor list is as long as the list
FdIndexesSequential ==
  \A pl \in TabPlaces :
    LET it == TabAt(pl)
    IN  /\ Len(it.fd_list) = Len(it.fd_array)
        /\ \A k \in 1 .. Len(it.fd_array) : it.fd_array[k].index = k - 1

\* the fd-forward list of the tab a --fd event finds: that of the last tab,
\* or of the tab of the window it is about to make
FdArrayFound ==
  IF Windows = << >> THEN << >> ELSE top_tab(options).fd_array

\* The value of wait a --fd event found in the tab it made can be read off
\* that tab, and an event that made no tab found none: a step is a --fd
\* event with some such value exactly when it is one with this value.
FdWaitSeen ==
  /\ options'.initial_windows # << >>
  /\ Last(options'.initial_windows).tabs # << >>
  /\ top_tab(options').wait

FdIndexStep ==
  \A v \in FdValues :
    \* accepted: one entry more, its index the former length
    /\ ( /\ pc = "parse" /\ pc' = "parse"
         /\ option_pass_fd_cb(v, FdWaitSeen, TRUE) )
       => top_tab(options').fd_array =
            Append(FdArrayFound, [index |-> Len(FdArrayFound), fd |-> v.v])
    \* rejected: no entry more, on the tab it found or elsewhere
    /\ ( /\ pc = "parse" /\ pc' = "cb_failed"
         /\ \E a \in BOOLEAN : option_pass_fd_cb(v, FdWaitSeen, a) )
       => IF Windows = << >>
          THEN \A k \in 1 .. Len(AllTabs(options'.initial_windows)) :
                 AllTabs(options'.initial_windows)[k].fd_array = << >>
          ELSE options'.initial_windows = Windows

\* C31: the k-th entry (counted from 0) of each tab's fd-forward list has
\* the local index k: an accepted --fd event appends one entry whose local
\* index is the number of entries the tab held, a rejected one adds none.
C31_FdIndexSequential == []FdIndexesSequential /\ [][FdIndexStep]_vars

\* C31 witness: two descriptors on one tab, with the indexes 0 and 1
C31_Witness ==
  /\ pc = "parse" /\ nevents = 2
  /\ Len(Windows) = 1
  /\ Len(Windows[1].tabs) = 1
  /\ top_tab(options).fd_array =
       << [index |-> 0, fd |-> 3], [index |-> 1, fd |-> 4] >>

CommandStep ==
  \A v \in Commands :
    ( pc = "parse" /\ pc' = "parse" /\ option_command_callback(v) )
    => LET cmd == g_shell_parse_argv(v).argv
       IN  IF Windows = << >>
           THEN \* the buffer holds the new command, and nothing else changed
                options' = [options EXCEPT !.exec_argv = cmd]
           ELSE \* the last tab of the last window holds it, and nothing
                \* else changed, the buffer neither
                /\ options' = set_top_tab(options,
                                [top_tab(options) EXCEPT !.exec_argv = cmd])
                /\ options'.exec_argv = options.exec_argv

\* C32: a --command event that succeeds with no window replaces the
\* buffered trailing command, also one the prescanner captured after -x or
\* --, with its own argv and makes no window; with a window it replaces the
\* exec argv of the last tab of the last window and leaves the buffered
\* trailing command as it is.
C32_CommandTarget == [][CommandStep]_vars

\* C32 witness: the command f captured after -x was replaced by the argv
\* of --command "f b", and there is no window
C32_Witness ==
  /\ pc = "parse" /\ nevents = 1
  /\ argv_in = <<"gnome-terminal", "-x", "f">>
  /\ options.execute
  /\ options.exec_argv = <<"f", "b">>
  /\ Windows = << >>

\* the places of the tabs of a window that are marked active
ActiveTabs(iw) == { j \in 1 .. Len(iw.tabs) : iw.tabs[j].active }

\* the names of the tab groups of a window group are pairwise distinct
DistinctNames(wg) ==
  \A j, l \in 1 .. Len(wg.tabs) : wg.tabs[j].name = wg.tabs[l].name => j = l

\* C33: in every window the merger builds, a tab is marked active exactly
\* when the name of its tab group is the active-tab name the window group
\* records; without an active-tab key no tab of the window is marked, and
\* with pairwise distinct tab-group names at most one is.
C33_ActiveTabByName ==
  [][ \A doc \in MergeDocuments :
        ( PassesGate(doc) /\ ~HasBrokenCommand(doc) /\ MergeStep(doc) )
        => LET ws     == options'.initial_windows
               n      == Len(Windows)
               groups == WithTabsList(doc.windows)
           IN  \A k \in 1 .. Len(groups) :
                 /\ Len(ws[n + k].tabs) = Len(groups[k].tabs)
                 /\ ActiveTabs(ws[n + k]) =
                      { j \in 1 .. Len(groups[k].tabs) :
                          groups[k].tabs[j].name = groups[k].active }
                 /\ groups[k].active = NULLSTR => ActiveTabs(ws[n + k]) = { }
                 /\ DistinctNames(groups[k])
                    => Cardinality(ActiveTabs(ws[n + k])) <= 1 ]_vars

\* C33 witness: a merge after the parse made a window of two tabs, and the
\* second, whose tab group the window group names, is the marked one
C33_Witness ==
  /\ pc = "returned" /\ nevents = 1
  /\ Len(Windows) = 1
  /\ Len(Windows[1].tabs) = 2
  /\ Windows[1].role = "R"
  /\ ActiveTabs(Windows[1]) = {2}

\* C34: an option event that fails (a second --wait, a rejected --fd, a
\* second --role, a --zoom or --command that cannot be read, a profile that
\* cannot be resolved, an invalid --app-id, a failed merge) leaves the
\* output window list and every member of GlobalDefaults, the default role
\* and the default menubar state too, as they were before the event.
C34_FailedEventChangesNothing ==
  [][ ( pc = "parse" /\ pc' = "cb_failed" )
      => /\ options'.initial_windows = Windows
         /\ GlobalDefaults(options') = GlobalDefaults(options) ]_vars

====
